---- MODULE Spec2Model ----
(***************************************************************************)
(* Model of package version (semantic version parsing, formatting,         *)
(* comparison and derivation) of gopi.                                     *)
(*                                                                         *)
(* A Go string is a sequence of one-character strings.  A uint64 is the    *)
(* sequence of its decimal digits (numbers 0..9, most significant first,   *)
(* no leading zero), so that the whole 64-bit range is represented         *)
(* exactly; "%d" formatting and strconv.ParseUint convert between the two. *)
(***************************************************************************)
EXTENDS Integers, Sequences, FiniteSets, TLC

VARIABLES obj, prov, steps, last

vars == <<obj, prov, steps, last>>

(***************************************************************************)
(* Characters                                                              *)
(***************************************************************************)
DigitSeq == <<"0", "1", "2", "3", "4", "5", "6", "7", "8", "9">>
UpperSeq == <<"A", "B", "C", "D", "E", "F", "G", "H", "I", "J", "K", "L", "M",
              "N", "O", "P", "Q", "R", "S", "T", "U", "V", "W", "X", "Y", "Z">>
LowerSeq == <<"a", "b", "c", "d", "e", "f", "g", "h", "i", "j", "k", "l", "m",
              "n", "o", "p", "q", "r", "s", "t", "u", "v", "w", "x", "y", "z">>

Range(f) == {f[i] : i \in DOMAIN f}

\* const num = "0123456789"
num == Range(DigitSeq)

\* const allowed = letters + "-" + num
allowed == Range(LowerSeq) \cup Range(UpperSeq) \cup {"-"} \cup num

IndexOf(seq, c) == CHOOSE i \in DOMAIN seq : seq[i] = c

\* The byte value of a character (ASCII), as Go's string comparison uses it.
Ord(c) ==
    IF c \in Range(DigitSeq) THEN 47 + IndexOf(DigitSeq, c)
    ELSE IF c \in Range(UpperSeq) THEN 64 + IndexOf(UpperSeq, c)
    ELSE IF c \in Range(LowerSeq) THEN 96 + IndexOf(LowerSeq, c)
    ELSE CASE c = " " -> 32
           [] c = "!" -> 33
           [] c = "\"" -> 34
           [] c = "+" -> 43
           [] c = "," -> 44
           [] c = "-" -> 45
           [] c = "." -> 46
           [] c = "_" -> 95

\* Go's s < o on strings: bytewise lexicographic, a proper prefix is smaller.
RECURSIVE StrLess(_, _)
StrLess(s, o) ==
    IF o = <<>> THEN FALSE
    ELSE IF s = <<>> THEN TRUE
    ELSE IF s[1] # o[1] THEN Ord(s[1]) < Ord(o[1])
    ELSE StrLess(Tail(s), Tail(o))

StrGreater(s, o) == StrLess(o, s)

(***************************************************************************)
(* package strings                                                         *)
(***************************************************************************)
\* strings.SplitN(s, sep, n) for a one-character sep; n < 0 means no limit.
RECURSIVE SplitN(_, _, _)
SplitN(s, sep, n) ==
    IF n = 1 \/ sep \notin Range(s) THEN <<s>>
    ELSE LET i == CHOOSE k \in DOMAIN s :
                      s[k] = sep /\ \A j \in 1..(k - 1) : s[j] # sep
         IN  <<SubSeq(s, 1, i - 1)>> \o SplitN(SubSeq(s, i + 1, Len(s)), sep, n - 1)

\* strings.Split(s, sep)
Split(s, sep) == SplitN(s, sep, -1)

\* strings.ContainsAny(s, chars)
ContainsAny(s, chars) == \E i \in DOMAIN s : s[i] \in chars

\* Like strings.ContainsAny but does an only instead of any.
containsOnly(s, comp) == \A i \in DOMAIN s : s[i] \in comp

(***************************************************************************)
(* uint64 and package strconv                                              *)
(***************************************************************************)
\* math.MaxUint64 = 18446744073709551615
MaxUint64 == <<1, 8, 4, 4, 6, 7, 4, 4, 0, 7, 3, 7, 0, 9, 5, 5, 1, 6, 1, 5>>

Zero64 == <<0>>

RECURSIVE DigitsLess(_, _)
DigitsLess(a, b) ==
    IF a = <<>> \/ b = <<>> THEN FALSE
    ELSE IF a[1] # b[1] THEN a[1] < b[1]
    ELSE DigitsLess(Tail(a), Tail(b))

\* a < b on uint64 values
U64Less(a, b) == Len(a) < Len(b) \/ (Len(a) = Len(b) /\ DigitsLess(a, b))

RECURSIVE DecSucc(_)
DecSucc(d) ==
    IF d = <<>> THEN <<1>>
    ELSE LET n == Len(d)
         IN  IF d[n] = 9 THEN DecSucc(SubSeq(d, 1, n - 1)) \o <<0>>
             ELSE SubSeq(d, 1, n - 1) \o <<d[n] + 1>>

\* x + 1 on a uint64: wraps to 0 at 2^64 - 1
AddOne(x) == IF x = MaxUint64 THEN Zero64 ELSE DecSucc(x)

RECURSIVE StripZeros(_)
StripZeros(d) ==
    IF Len(d) > 1 /\ d[1] = 0 THEN StripZeros(Tail(d)) ELSE d

\* strconv.ParseUint(s, 10, 64): no sign, digits only, at most 2^64 - 1
ParseUint(s) ==
    IF s = <<>> \/ ~containsOnly(s, num)
    THEN [err |-> "ErrSyntax", val |-> Zero64]
    ELSE LET d == StripZeros([i \in DOMAIN s |-> IndexOf(DigitSeq, s[i]) - 1])
         IN  IF U64Less(MaxUint64, d)
             THEN [err |-> "ErrRange", val |-> MaxUint64]
             ELSE [err |-> "nil", val |-> d]

\* fmt's %d verb on a uint64
FormatUint(x) == [i \in DOMAIN x |-> DigitSeq[x[i] + 1]]

(***************************************************************************)
(* type Class and its zero value                                           *)
(***************************************************************************)
Class(major, minor, patch, pre, metadata, original) ==
    [major |-> major, minor |-> minor, patch |-> patch,
     pre |-> pre, metadata |-> metadata, original |-> original]

ZeroClass == Class(Zero64, Zero64, Zero64, <<>>, <<>>, <<>>)

(***************************************************************************)
(* Validation helpers                                                      *)
(***************************************************************************)
FirstError(errs) ==
    LET bad == {i \in DOMAIN errs : errs[i] # "nil"}
    IN  IF bad = {} THEN "nil"
        ELSE errs[CHOOSE i \in bad : \A j \in bad : i <= j]

validatePrereleasePart(p) ==
    IF containsOnly(p, num)
    THEN IF Len(p) > 1 /\ p[1] = "0" THEN "ErrSegmentStartsZero" ELSE "nil"
    ELSE IF ~containsOnly(p, allowed) THEN "ErrInvalidPrerelease" ELSE "nil"

validatePrerelease(p) ==
    LET eParts == Split(p, ".")
    IN  FirstError([i \in DOMAIN eParts |-> validatePrereleasePart(eParts[i])])

validateMetadataPart(p) ==
    IF ~containsOnly(p, allowed) THEN "ErrInvalidMetadata" ELSE "nil"

validateMetadata(m) ==
    LET eParts == Split(m, ".")
    IN  FirstError([i \in DOMAIN eParts |-> validateMetadataPart(eParts[i])])

(***************************************************************************)
(* Formatting                                                              *)
(***************************************************************************)
String(v) ==
    FormatUint(v.major) \o <<".">> \o FormatUint(v.minor) \o <<".">>
        \o FormatUint(v.patch)
        \o (IF v.pre # <<>> THEN <<"-">> \o v.pre ELSE <<>>)
        \o (IF v.metadata # <<>> THEN <<"+">> \o v.metadata ELSE <<>>)

Original(v) == v.original

originalVPrefix(v) ==
    IF v.original # <<>> /\ SubSeq(v.original, 1, 1) = <<"v">>
    THEN SubSeq(v.original, 1, 1)
    ELSE <<>>

(***************************************************************************)
(* Parsing                                                                 *)
(***************************************************************************)
NilResult(e) == [err |-> e, val |-> ZeroClass]

\* if err != nil { return nil, err } before the rest of the function
OrElse(err, rest) == IF err # "nil" THEN NilResult(err) ELSE rest

\* The first failure of the loop over the numeric segments in StrictNew.
strictSegmentError(p) ==
    IF ~containsOnly(p, num) THEN "ErrInvalidCharacters"
    ELSE IF Len(p) > 1 /\ p[1] = "0" THEN "ErrSegmentStartsZero"
    ELSE "nil"

\* An error of strconv.ParseUint returned as it is (a *strconv.NumError).
NumError(r) == IF r.err = "nil" THEN "nil" ELSE "NumError"

\* fmt.Errorf("error parsing Class segment: %s", err)
SegmentError(r) == IF r.err = "nil" THEN "nil" ELSE "ErrParsingSegment"

\* The checks of the prerelease and of the metadata that end both parsers.
validateExtra(sv) ==
    OrElse(IF sv.pre # <<>> THEN validatePrerelease(sv.pre) ELSE "nil",
           OrElse(IF sv.metadata # <<>> THEN validateMetadata(sv.metadata)
                  ELSE "nil",
                  [err |-> "nil", val |-> sv]))

\* StrictNew, build metadata: extra = SplitN(parts[2], "+", 2)
strictSplitMetadata(hasExtra, p) ==
    IF hasExtra /\ Len(SplitN(p, "+", 2)) > 1
    THEN [seg |-> SplitN(p, "+", 2)[1], metadata |-> SplitN(p, "+", 2)[2]]
    ELSE [seg |-> p, metadata |-> <<>>]

\* StrictNew, prerelease: extra = SplitN(parts[2], "-", 2)
strictSplitPrerelease(hasExtra, e) ==
    IF hasExtra /\ Len(SplitN(e.seg, "-", 2)) > 1
    THEN [seg |-> SplitN(e.seg, "-", 2)[1], pre |-> SplitN(e.seg, "-", 2)[2],
          metadata |-> e.metadata]
    ELSE [seg |-> e.seg, pre |-> <<>>, metadata |-> e.metadata]

\* StrictNew from "check for prerelease or build metadata" on: the third
\* part split into the patch segment, the prerelease and the metadata.
strictSplitExtra(p) ==
    strictSplitPrerelease(ContainsAny(p, {"-", "+"}),
                          strictSplitMetadata(ContainsAny(p, {"-", "+"}), p))

\* StrictNew after the numbers are parsed: the fast path, then validation.
strictValidate(sv) ==
    IF sv.pre = <<>> /\ sv.metadata = <<>> THEN [err |-> "nil", val |-> sv]
    ELSE validateExtra(sv)

\* StrictNew from "Extract the major, minor, and patch elements" on.
strictNumbers(v, major, minor, patch, e) ==
    OrElse(FirstError(<<NumError(major), NumError(minor), NumError(patch)>>),
           strictValidate(Class(major.val, minor.val, patch.val,
                                e.pre, e.metadata, v)))

\* StrictNew from "Validate the number segments are valid" on.
strictSegments(v, p0, p1, e) ==
    OrElse(FirstError(<<strictSegmentError(p0), strictSegmentError(p1),
                        strictSegmentError(e.seg)>>),
           strictNumbers(v, ParseUint(p0), ParseUint(p1), ParseUint(e.seg), e))

\* StrictNew after parts := strings.SplitN(v, ".", 3)
strictParts(v, parts) ==
    IF Len(parts) # 3 THEN NilResult("ErrInvalidSemVer")
    ELSE strictSegments(v, parts[1], parts[2], strictSplitExtra(parts[3]))

StrictNew(v) ==
    IF Len(v) = 0 THEN NilResult("ErrEmptyString")
    ELSE strictParts(v, SplitN(v, ".", 3))

\* The length of the longest prefix of s made of characters of set.
PrefixLen(s, set) ==
    CHOOSE n \in 0..Len(s) :
        /\ \A i \in 1..n : s[i] \in set
        /\ (n = Len(s) \/ s[n + 1] \notin set)

\* [0-9A-Za-z\-]+(\.[0-9A-Za-z\-]+)*
matchIdentifiers(s) ==
    /\ s # <<>>
    /\ containsOnly(s, allowed \cup {"."})
    /\ \A i \in DOMAIN Split(s, ".") : Split(s, ".")[i] # <<>>

\* (\.[0-9]+)? at the head of r: the group and what follows it
optDotNumber(r) ==
    IF Len(r) >= 2 /\ r[1] = "." /\ r[2] \in num
    THEN [group |-> SubSeq(r, 1, PrefixLen(Tail(r), num) + 1),
          rest |-> SubSeq(r, PrefixLen(Tail(r), num) + 2, Len(r))]
    ELSE [group |-> <<>>, rest |-> r]

\* (c(identifiers))? at the head of r, for c one of "-" and "+": the inner
\* group, what follows it, and whether the text can still match.  The
\* group is the whole run of identifier characters and dots: what follows
\* is "+" or the end, which a shorter group would not reach.
optExtraOfLength(r, n) ==
    [ok |-> matchIdentifiers(SubSeq(r, 2, n + 1)),
     group |-> SubSeq(r, 2, n + 1),
     rest |-> SubSeq(r, n + 2, Len(r))]

optExtra(r, c) ==
    IF r # <<>> /\ r[1] = c
    THEN optExtraOfLength(r, PrefixLen(Tail(r), allowed \cup {"."}))
    ELSE [ok |-> TRUE, group |-> <<>>, rest |-> r]

\* The submatches New reads, once every group is matched, and whether the
\* text is matched to its end ($).
matchEnd(m1, g2, g3, g5, g8) ==
    [matched |-> m1 # <<>> /\ g5.ok /\ g8.ok /\ g8.rest = <<>>,
     m1 |-> m1, m2 |-> g2.group, m3 |-> g3.group,
     m5 |-> g5.group, m8 |-> g8.group]

\* (\+(...))? after the prerelease group
matchMetadata(m1, g2, g3, g5) == matchEnd(m1, g2, g3, g5, optExtra(g5.rest, "+"))

\* (-(...))? after the patch group
matchPrerelease(m1, g2, g3) == matchMetadata(m1, g2, g3, optExtra(g3.rest, "-"))

\* (\.[0-9]+)? a second time, after the minor group
matchPatch(m1, g2) == matchPrerelease(m1, g2, optDotNumber(g2.rest))

\* ([0-9]+) of length n1 at the head of s, then (\.[0-9]+)?
matchMajor(s, n1) ==
    matchPatch(SubSeq(s, 1, n1), optDotNumber(SubSeq(s, n1 + 1, Len(s))))

\* v? and then the longest run of digits
matchV(s) == matchMajor(s, PrefixLen(s, num))

\* ClassRegex.FindStringSubmatch(v) for ClassRegex = "^" + semVerRegex + "$":
\* the submatches m[1], m[2], m[3], m[5], m[8] that New reads.
FindStringSubmatch(v) == matchV(IF v # <<>> /\ v[1] = "v" THEN Tail(v) ELSE v)

\* strings.TrimPrefix(s, ".")
TrimPrefixDot(s) == IF s # <<>> /\ s[1] = "." THEN Tail(s) ELSE s

\* The minor or the patch of New: parsed if its group matched, 0 otherwise.
optSegment(g) ==
    IF g # <<>> THEN ParseUint(TrimPrefixDot(g))
    ELSE [err |-> "nil", val |-> Zero64]

\* New once the three numbers are parsed.
newNumbers(v, m, major, minor, patch) ==
    OrElse(FirstError(<<SegmentError(major), SegmentError(minor),
                        SegmentError(patch)>>),
           validateExtra(Class(major.val, minor.val, patch.val, m.m5, m.m8, v)))

\* New after m := ClassRegex.FindStringSubmatch(v)
newMatch(v, m) ==
    IF ~m.matched THEN NilResult("ErrInvalidSemVer")
    ELSE newNumbers(v, m, ParseUint(m.m1), optSegment(m.m2), optSegment(m.m3))

New(v) == newMatch(v, FindStringSubmatch(v))

NewByArgs(major, minor, patch, pre, metadata) ==
    LET v == Class(major, minor, patch, pre, metadata, <<>>)
    IN  [v EXCEPT !.original = String(v)]

(***************************************************************************)
(* Comparison                                                              *)
(***************************************************************************)
compareSegment(v, o) ==
    IF U64Less(v, o) THEN -1
    ELSE IF U64Less(o, v) THEN 1
    ELSE 0

comparePrePart(s, o) ==
    IF s = o THEN 0
    ELSE IF s = <<>> THEN (IF o # <<>> THEN -1 ELSE 1)
    ELSE IF o = <<>> THEN (IF s # <<>> THEN 1 ELSE -1)
    ELSE
    LET n1 == ParseUint(o)
        n2 == ParseUint(s)
    IN  IF n1.err # "nil" /\ n2.err # "nil"
        THEN (IF StrGreater(s, o) THEN 1 ELSE -1)
        ELSE IF n1.err # "nil" THEN -1
        ELSE IF n2.err # "nil" THEN 1
        ELSE IF U64Less(n1.val, n2.val) THEN 1
        ELSE -1

comparePrerelease(v, o) ==
    LET sParts == Split(v, ".")
        oParts == Split(o, ".")
        sLen   == Len(sParts)
        oLen   == Len(oParts)
        l      == IF oLen > sLen THEN oLen ELSE sLen
        d      == [i \in 1..l |->
                     comparePrePart(IF i <= sLen THEN sParts[i] ELSE <<>>,
                                    IF i <= oLen THEN oParts[i] ELSE <<>>)]
        diff   == {i \in 1..l : d[i] # 0}
    IN  IF diff = {} THEN 0
        ELSE d[CHOOSE i \in diff : \A j \in diff : i <= j]

Compare(v, o) ==
    IF compareSegment(v.major, o.major) # 0 THEN compareSegment(v.major, o.major)
    ELSE IF compareSegment(v.minor, o.minor) # 0 THEN compareSegment(v.minor, o.minor)
    ELSE IF compareSegment(v.patch, o.patch) # 0 THEN compareSegment(v.patch, o.patch)
    ELSE IF v.pre = <<>> /\ o.pre = <<>> THEN 0
    ELSE IF v.pre = <<>> THEN 1
    ELSE IF o.pre = <<>> THEN -1
    ELSE comparePrerelease(v.pre, o.pre)

LessThan(v, o) == Compare(v, o) < 0

GreaterThan(v, o) == Compare(v, o) > 0

Equal(v, o) == Compare(v, o) = 0

(***************************************************************************)
(* Derivation.  In each method vNext := v copies the pointer, so vNext and *)
(* the receiver are one object: every assignment through vNext is an       *)
(* assignment to the receiver.  An operator returns the receiver object    *)
(* after the call (recv), the Class value returned (ret) and the error.    *)
(***************************************************************************)
Outcome(recv, ret, err) == [recv |-> recv, ret |-> ret, err |-> err]

\* The original recomputed without the v prefix.
WithOriginalNoPrefix(v) == [v EXCEPT !.original = String(v)]

WithOriginal(v) == [v EXCEPT !.original = originalVPrefix(v) \o String(v)]

\* IncPatch without its test of the prerelease: the patch always goes up.
IncPatchAlwaysIncrements(v) ==
    LET cleared == [v EXCEPT !.metadata = <<>>, !.pre = <<>>]
        done    == WithOriginal([cleared EXCEPT !.patch = AddOne(cleared.patch)])
    IN  Outcome(done, done, "nil")

IncPatch(v) ==
    LET cleared == [v EXCEPT !.metadata = <<>>, !.pre = <<>>]
        vNext   == IF v.pre # <<>> THEN cleared
                   ELSE [cleared EXCEPT !.patch = AddOne(cleared.patch)]
        done    == WithOriginal(vNext)
    IN  Outcome(done, done, "nil")

IncMinor(v) ==
    LET cleared == [v EXCEPT !.metadata = <<>>, !.pre = <<>>, !.patch = Zero64]
        vNext   == [cleared EXCEPT !.minor = AddOne(cleared.minor)]
        done    == WithOriginal(vNext)
    IN  Outcome(done, done, "nil")

IncMajor(v) ==
    LET cleared == [v EXCEPT !.metadata = <<>>, !.pre = <<>>, !.patch = Zero64,
                             !.minor = Zero64]
        vNext   == [cleared EXCEPT !.major = AddOne(cleared.major)]
        done    == WithOriginal(vNext)
    IN  Outcome(done, done, "nil")

\* SetPrerelease that assigns the prerelease before it validates it.
SetPrereleaseAssignsFirst(v, prerelease) ==
    IF Len(prerelease) > 0 /\ validatePrerelease(prerelease) # "nil"
    THEN Outcome([v EXCEPT !.pre = prerelease], [v EXCEPT !.pre = prerelease],
                 validatePrerelease(prerelease))
    ELSE LET done == WithOriginal([v EXCEPT !.pre = prerelease])
         IN  Outcome(done, done, "nil")

SetPrerelease(v, prerelease) ==
    IF Len(prerelease) > 0 /\ validatePrerelease(prerelease) # "nil"
    THEN Outcome(v, v, validatePrerelease(prerelease))
    ELSE LET done == WithOriginal([v EXCEPT !.pre = prerelease])
         IN  Outcome(done, done, "nil")

SetMetadata(v, metadata) ==
    IF Len(metadata) > 0 /\ validateMetadata(metadata) # "nil"
    THEN Outcome(v, v, validateMetadata(metadata))
    ELSE LET done == WithOriginal([v EXCEPT !.metadata = metadata])
         IN  Outcome(done, done, "nil")

(***************************************************************************)
(* Encoding                                                                *)
(***************************************************************************)
Quote == "\""

Backslash == "\\"

RECURSIVE jsonEscape(_)
jsonEscape(s) ==
    IF s = <<>> THEN <<>>
    ELSE (IF s[1] \in {Quote, Backslash} THEN <<Backslash, s[1]>> ELSE <<s[1]>>)
             \o jsonEscape(Tail(s))

RECURSIVE jsonUnescape(_)
jsonUnescape(s) ==
    IF s = <<>> THEN <<>>
    ELSE IF s[1] = Backslash THEN <<s[2]>> \o jsonUnescape(SubSeq(s, 3, Len(s)))
    ELSE <<s[1]>> \o jsonUnescape(Tail(s))

\* json.Marshal of a string made of the characters Ord knows
jsonMarshalString(s) == <<Quote>> \o jsonEscape(s) \o <<Quote>>

\* The text holds a JSON string literal: quotes around characters none of
\* which is a bare quote, every backslash followed by a quote or a backslash.
RECURSIVE jsonBodyOk(_)
jsonBodyOk(s) ==
    IF s = <<>> THEN TRUE
    ELSE IF s[1] = Quote THEN FALSE
    ELSE IF s[1] = Backslash
         THEN Len(s) >= 2 /\ s[2] \in {Quote, Backslash}
                  /\ jsonBodyOk(SubSeq(s, 3, Len(s)))
    ELSE jsonBodyOk(Tail(s))

\* json.Unmarshal(b, &s) for a string s
jsonUnmarshalString(b) ==
    IF Len(b) >= 2 /\ b[1] = Quote /\ b[Len(b)] = Quote
          /\ jsonBodyOk(SubSeq(b, 2, Len(b) - 1))
    THEN [err |-> "nil", val |-> jsonUnescape(SubSeq(b, 2, Len(b) - 1))]
    ELSE [err |-> "JSONError", val |-> <<>>]

MarshalJSON(v) == jsonMarshalString(String(v))

MarshalText(v) == String(v)

\* temp, err := New(s); if err != nil { return err }; *v = *temp
assign(v, temp) ==
    IF temp.err # "nil" THEN Outcome(v, v, temp.err)
    ELSE Outcome(temp.val, temp.val, "nil")

\* UnmarshalJSON after json.Unmarshal(b, &s)
unmarshalString(v, s) ==
    IF s.err # "nil" THEN Outcome(v, v, s.err) ELSE assign(v, New(s.val))

\* The receiver after UnmarshalJSON(b), and the error.
UnmarshalJSON(v, b) == unmarshalString(v, jsonUnmarshalString(b))

UnmarshalText(v, text) == assign(v, New(text))

(***************************************************************************)
(* Package lib: the filter of the architectures asked for                  *)
(***************************************************************************)
\* contains whose loop stops one element early.
containsSkipsLast(s, str) == \E i \in 1..(Len(s) - 1) : s[i] = str

contains(s, str) == \E i \in DOMAIN s : s[i] = str

\* The white space of strings.TrimSpace that a line read from a console has.
WhiteSpace == {" ", "\t", "\n", "\r", "\f"}

RECURSIVE TrimLeft(_)
TrimLeft(s) ==
    IF s # <<>> /\ s[1] \in WhiteSpace THEN TrimLeft(Tail(s)) ELSE s

RECURSIVE TrimRight(_)
TrimRight(s) ==
    IF s # <<>> /\ s[Len(s)] \in WhiteSpace
    THEN TrimRight(SubSeq(s, 1, Len(s) - 1))
    ELSE s

\* strings.TrimSpace(s)
TrimSpace(s) == TrimRight(TrimLeft(s))

\* The loop of archValid over the entries al, from the list lst so far.
RECURSIVE archLoop(_, _, _)
archLoop(al, archList, lst) ==
    IF al = <<>> THEN lst
    ELSE archLoop(Tail(al), archList,
                  IF Len(TrimSpace(Head(al))) > 0
                         /\ contains(archList, TrimSpace(Head(al)))
                  THEN Append(lst, TrimSpace(Head(al)))
                  ELSE lst)

\* archValid(st, archList): whether it panics, and the list and the error
\* it returns otherwise.  What it prints is not part of the result.
archValid(st, archList) ==
    IF Len(TrimSpace(st)) = 0
    THEN [panic |-> TRUE, lst |-> <<>>, err |-> "nil"]
    ELSE [panic |-> FALSE, lst |-> archLoop(Split(st, ","), archList, <<>>),
          err |-> "nil"]

(***************************************************************************)
(* Inputs                                                                  *)
(***************************************************************************)
\* The precedence chain of semver.org, item 11:
\*   1.0.0-alpha
\*   1.0.0-alpha.1
\*   1.0.0-alpha.beta
\*   1.0.0-beta
\*   1.0.0-beta.2
\*   1.0.0-beta.11
\*   1.0.0-rc.1
\*   1.0.0
ChainInputs ==
    {
      <<"1", ".", "0", ".", "0", "-", "a", "l", "p", "h", "a">>,
      <<"1", ".", "0", ".", "0", "-", "a", "l", "p", "h", "a", ".", "1">>,
      <<"1", ".", "0", ".", "0", "-", "a", "l", "p", "h", "a", ".", "b", "e", "t", "a">>,
      <<"1", ".", "0", ".", "0", "-", "b", "e", "t", "a">>,
      <<"1", ".", "0", ".", "0", "-", "b", "e", "t", "a", ".", "2">>,
      <<"1", ".", "0", ".", "0", "-", "b", "e", "t", "a", ".", "1", "1">>,
      <<"1", ".", "0", ".", "0", "-", "r", "c", ".", "1">>,
      <<"1", ".", "0", ".", "0">>
    }

\* Releases, a v prefix, prerelease, build metadata, missing segments:
\*   1.2.3
\*   v1.2.3
\*   1.2.3-alpha
\*   1.2.3+build
\*   1.0.0+build
\*   1.2
\*   1
PlainInputs ==
    {
      <<"1", ".", "2", ".", "3">>,
      <<"v", "1", ".", "2", ".", "3">>,
      <<"1", ".", "2", ".", "3", "-", "a", "l", "p", "h", "a">>,
      <<"1", ".", "2", ".", "3", "+", "b", "u", "i", "l", "d">>,
      <<"1", ".", "0", ".", "0", "+", "b", "u", "i", "l", "d">>,
      <<"1", ".", "2">>,
      <<"1">>
    }

\* Leading zeros in a numeric segment or a numeric identifier:
\*   01.2.3
\*   1.02.3
\*   1.0.0-01
LeadingZeroInputs ==
    {
      <<"0", "1", ".", "2", ".", "3">>,
      <<"1", ".", "0", "2", ".", "3">>,
      <<"1", ".", "0", ".", "0", "-", "0", "1">>
    }

\* An empty identifier in the prerelease or the build metadata:
\*   1.0.0-alpha.
\*   1.0.0-alpha..1
\*   1.0.0+build.
EmptyIdentifierInputs ==
    {
      <<"1", ".", "0", ".", "0", "-", "a", "l", "p", "h", "a", ".">>,
      <<"1", ".", "0", ".", "0", "-", "a", "l", "p", "h", "a", ".", ".", "1">>,
      <<"1", ".", "0", ".", "0", "+", "b", "u", "i", "l", "d", ".">>
    }

\* Numbers at and beyond the 64-bit range:
\*   1.0.0-99999999999999999999
\*   1.0.0-100000000000000000000
\*   1.2.18446744073709551615
\*   1.2.18446744073709551616
LargeInputs ==
    {
      <<"1", ".", "0", ".", "0", "-", "9", "9", "9", "9", "9", "9", "9", "9", "9", "9", "9", "9", "9", "9", "9", "9", "9", "9", "9", "9">>,
      <<"1", ".", "0", ".", "0", "-", "1", "0", "0", "0", "0", "0", "0", "0", "0", "0", "0", "0", "0", "0", "0", "0", "0", "0", "0", "0", "0">>,
      <<"1", ".", "2", ".", "1", "8", "4", "4", "6", "7", "4", "4", "0", "7", "3", "7", "0", "9", "5", "5", "1", "6", "1", "5">>,
      <<"1", ".", "2", ".", "1", "8", "4", "4", "6", "7", "4", "4", "0", "7", "3", "7", "0", "9", "5", "5", "1", "6", "1", "6">>
    }

\* Text that is no version:
\*   (the empty string)
\*   1.a.3
\*   1..3
\*   1.2.3.4
\*   1.0.0-alpha!
\*   1.0.0+build!
MalformedInputs ==
    {
      <<>>,
      <<"1", ".", "a", ".", "3">>,
      <<"1", ".", ".", "3">>,
      <<"1", ".", "2", ".", "3", ".", "4">>,
      <<"1", ".", "0", ".", "0", "-", "a", "l", "p", "h", "a", "!">>,
      <<"1", ".", "0", ".", "0", "+", "b", "u", "i", "l", "d", "!">>
    }

VersionInputs ==
    ChainInputs \cup PlainInputs \cup LeadingZeroInputs
        \cup EmptyIdentifierInputs \cup LargeInputs \cup MalformedInputs

\* Arguments of SetPrerelease:  (empty)  01  alpha  alpha..1
PrereleaseInputs ==
    {
      <<>>,
      <<"0", "1">>,
      <<"a", "l", "p", "h", "a">>,
      <<"a", "l", "p", "h", "a", ".", ".", "1">>
    }

\* Arguments of SetMetadata:  (empty)  build  build.  build!
MetadataInputs ==
    {
      <<>>,
      <<"b", "u", "i", "l", "d">>,
      <<"b", "u", "i", "l", "d", ".">>,
      <<"b", "u", "i", "l", "d", "!">>
    }

\* Arguments of NewByArgs: major, minor, patch, pre, metadata
ArgsInputs ==
    {
      <<<<1>>, <<0>>, <<0>>, <<"0", "1">>, <<>>>>,
      <<<<1>>, <<0>>, <<0>>, <<"1">>, <<>>>>,
      <<<<1>>, <<2>>, MaxUint64, <<>>, <<>>>>,
      <<MaxUint64, MaxUint64, <<3>>, <<>>, <<"b", "u", "i", "l", "d">>>>
    }

\* The entries of an architecture list as typed:
\*   amd  " amd"  "arm "  "\tarm\n"  mips  (empty)  " "
ArchEntries ==
    {
      <<"a", "m", "d">>,
      <<" ", "a", "m", "d">>,
      <<"a", "r", "m", " ">>,
      <<"\t", "a", "r", "m", "\n">>,
      <<"m", "i", "p", "s">>,
      <<>>,
      <<" ">>
    }

MaxEntries == 3

RECURSIVE JoinComma(_)
JoinComma(es) ==
    IF Len(es) = 1 THEN es[1] ELSE es[1] \o <<",">> \o JoinComma(Tail(es))

\* The texts of one to MaxEntries entries separated by commas.
ArchInputs ==
    {JoinComma(es) : es \in UNION {[1..n -> ArchEntries] : n \in 1..MaxEntries}}

\* The allow-lists:  [amd arm]  [arm amd mips]  []  ["" " amd" arm]
ArchLists ==
    {
      << <<"a", "m", "d">>, <<"a", "r", "m">> >>,
      << <<"a", "r", "m">>, <<"a", "m", "d">>, <<"m", "i", "p", "s">> >>,
      << >>,
      << <<>>, <<" ", "a", "m", "d">>, <<"a", "r", "m">> >>
    }

(***************************************************************************)
(* The state machine.  A program holds Class objects through pointers      *)
(* (the holders); obj[h] is the object holder h points to.  It parses      *)
(* text into a holder, calls the methods of a held object, compares two    *)
(* held objects, and encodes one and decodes the bytes into another.       *)
(*   prov[h]  which constructor made obj[h] ("zero" for a new(Class))      *)
(*   steps[h] the derivation calls that led to the value of obj[h] since a *)
(*            constructor made it (decoding carries the count over)        *)
(*   last     the last call: its name, receiver, argument, the receiver    *)
(*            object before the call, and what the call returned           *)
(***************************************************************************)
MaxSteps == 2

Holders == {1, 2}

NoCall ==
    [op |-> "none", recv |-> 0, other |-> 0, arg |-> <<>>,
     before |-> ZeroClass, bprov |-> "zero",
     ret |-> ZeroClass, err |-> "nil", cmp |-> 0, eq |-> FALSE, out |-> <<>>,
     enc |-> "none", src |-> ZeroClass, sprov |-> "zero", ssteps |-> 0,
     list |-> <<>>, lst |-> <<>>, panic |-> FALSE]

Init ==
    /\ obj = [h \in Holders |-> ZeroClass]
    /\ prov = [h \in Holders |-> "zero"]
    /\ steps = [h \in Holders |-> 0]
    /\ last = NoCall

\* h = ctor(arg): on success the holder points to the new object.
Construct(h, name, arg, r) ==
    /\ obj' = IF r.err = "nil" THEN [obj EXCEPT ![h] = r.val] ELSE obj
    /\ prov' = IF r.err = "nil" THEN [prov EXCEPT ![h] = name] ELSE prov
    /\ steps' = IF r.err = "nil" THEN [steps EXCEPT ![h] = 0] ELSE steps
    /\ last' = [NoCall EXCEPT !.op = name, !.recv = h, !.arg = arg,
                              !.ret = r.val, !.err = r.err]

CallNew(h) ==
    \E s \in VersionInputs : \E r \in {New(s)} : Construct(h, "New", s, r)

CallStrictNew(h) ==
    \E s \in VersionInputs : \E r \in {StrictNew(s)} :
        Construct(h, "StrictNew", s, r)

CallNewByArgs(h) ==
    \E a \in ArgsInputs : \E v \in {NewByArgs(a[1], a[2], a[3], a[4], a[5])} :
        Construct(h, "NewByArgs", a[4], [err |-> "nil", val |-> v])

\* obj[h].method(arg): the receiver object becomes r.recv.
Derive(h, name, arg, r) ==
    /\ steps[h] < MaxSteps
    /\ obj' = [obj EXCEPT ![h] = r.recv]
    /\ steps' = [steps EXCEPT ![h] = @ + 1]
    /\ last' = [NoCall EXCEPT !.op = name, !.recv = h, !.arg = arg,
                              !.before = obj[h], !.bprov = prov[h],
                              !.ret = r.ret, !.err = r.err]
    /\ UNCHANGED prov

CallIncPatch(h) == \E r \in {IncPatch(obj[h])} : Derive(h, "IncPatch", <<>>, r)

CallIncMinor(h) == \E r \in {IncMinor(obj[h])} : Derive(h, "IncMinor", <<>>, r)

CallIncMajor(h) == \E r \in {IncMajor(obj[h])} : Derive(h, "IncMajor", <<>>, r)

CallSetPrerelease(h) ==
    \E p \in PrereleaseInputs : \E r \in {SetPrerelease(obj[h], p)} :
        Derive(h, "SetPrerelease", p, r)

CallSetMetadata(h) ==
    \E m \in MetadataInputs : \E r \in {SetMetadata(obj[h], m)} :
        Derive(h, "SetMetadata", m, r)

\* obj[h].Compare(obj[k])
CallCompare(h, k) ==
    /\ last' = [NoCall EXCEPT !.op = "Compare", !.recv = h, !.other = k,
                              !.cmp = Compare(obj[h], obj[k])]
    /\ UNCHANGED <<obj, prov, steps>>

\* obj[h].Equal(obj[k])
CallEqual(h, k) ==
    /\ last' = [NoCall EXCEPT !.op = "Equal", !.recv = h, !.other = k,
                              !.eq = Equal(obj[h], obj[k])]
    /\ UNCHANGED <<obj, prov, steps>>

\* obj[h].MarshalJSON() and obj[h].MarshalText()
Encode(h, name, enc, bytes) ==
    /\ last' = [NoCall EXCEPT !.op = name, !.recv = h,
                              !.out = bytes, !.enc = enc,
                              !.src = obj[h], !.sprov = prov[h],
                              !.ssteps = steps[h]]
    /\ UNCHANGED <<obj, prov, steps>>

CallMarshalJSON(h) ==
    \E b \in {MarshalJSON(obj[h])} : Encode(h, "MarshalJSON", "JSON", b)

CallMarshalText(h) ==
    \E b \in {MarshalText(obj[h])} : Encode(h, "MarshalText", "Text", b)

\* obj[h].UnmarshalJSON(b) and obj[h].UnmarshalText(b), for the bytes b the
\* last call encoded.
Decode(h, name, r) ==
    /\ obj' = [obj EXCEPT ![h] = r.recv]
    /\ prov' = IF r.err = "nil" THEN [prov EXCEPT ![h] = "New"] ELSE prov
    /\ steps' = IF r.err = "nil" THEN [steps EXCEPT ![h] = last.ssteps] ELSE steps
    /\ last' = [NoCall EXCEPT !.op = name, !.recv = h, !.arg = last.out,
                              !.err = r.err, !.enc = last.enc,
                              !.src = last.src, !.sprov = last.sprov,
                              !.ssteps = last.ssteps]

CallUnmarshalJSON(h) ==
    /\ last.op \in {"MarshalJSON", "MarshalText"}
    /\ \E r \in {UnmarshalJSON(obj[h], last.out)} : Decode(h, "UnmarshalJSON", r)

CallUnmarshalText(h) ==
    /\ last.op \in {"MarshalJSON", "MarshalText"}
    /\ \E r \in {UnmarshalText(obj[h], last.out)} : Decode(h, "UnmarshalText", r)

\* that.Arch, err = archValid(res, that.config.ArchList), the one call
\* PromptPkg makes of it.
CallArchValid ==
    /\ last.op = "none"
    /\ \E st \in ArchInputs : \E archList \in ArchLists :
         \E r \in {archValid(st, archList)} :
           last' = [NoCall EXCEPT !.op = "archValid", !.arg = st,
                                  !.list = archList, !.lst = r.lst,
                                  !.err = r.err, !.panic = r.panic]
    /\ UNCHANGED <<obj, prov, steps>>

\* A program that works on one object: it constructs it, derives from it,
\* compares it, encodes it and decodes into it.
Receiver == 1

Next ==
    \/ CallNew(Receiver)
    \/ CallStrictNew(Receiver)
    \/ CallNewByArgs(Receiver)
    \/ CallIncPatch(Receiver)
    \/ CallIncMinor(Receiver)
    \/ CallIncMajor(Receiver)
    \/ CallSetPrerelease(Receiver)
    \/ CallSetMetadata(Receiver)
    \/ CallCompare(Receiver, Receiver)
    \/ CallEqual(Receiver, Receiver)
    \/ CallMarshalJSON(Receiver)
    \/ CallMarshalText(Receiver)
    \/ CallUnmarshalJSON(Receiver)
    \/ CallUnmarshalText(Receiver)

Spec == Init /\ [][Next]_vars

\* A program that constructs two objects and compares them.
NextCompare ==
    \E h \in Holders :
        \/ CallNew(h)
        \/ CallStrictNew(h)
        \/ CallNewByArgs(h)
        \/ \E k \in Holders : CallCompare(h, k)
        \/ \E k \in Holders : CallEqual(h, k)

SpecCompare == Init /\ [][NextCompare]_vars

\* A program that filters one architecture list.
NextArch == CallArchValid

SpecArch == Init /\ [][NextArch]_vars

(***************************************************************************)
(* Properties                                                              *)
(***************************************************************************)
DeriveOps == {"IncPatch", "IncMinor", "IncMajor", "SetPrerelease", "SetMetadata"}

\* The constructors that validate what they parse.
Validating == {"New", "StrictNew"}

\* C1: IncPatch, IncMinor, IncMajor, SetPrerelease and SetMetadata never
\* mutate the receiver: after the call the receiver object is what it was
\* before the call.
C1_ReceiverNeverMutated ==
    last.op \in DeriveOps => obj[last.recv] = last.before

\* C2: Compare is antisymmetric, however the two versions were constructed:
\* Compare(a, b) = -Compare(b, a).
C2_CompareAntisymmetric ==
    last.op = "Compare" =>
        last.cmp = 0 - Compare(obj[last.other], obj[last.recv])

\* C3: for versions from New, StrictNew or derived from such, Equal(a, b) is
\* true exactly when major, minor, patch and the prerelease strings are the
\* same.
C3_EqualIffSameFields ==
    (/\ last.op = "Equal"
     /\ prov[last.recv] \in Validating
     /\ prov[last.other] \in Validating)
    => LET a == obj[last.recv]
           b == obj[last.other]
       IN  last.eq <=> (/\ a.major = b.major
                        /\ a.minor = b.minor
                        /\ a.patch = b.patch
                        /\ a.pre = b.pre)

\* A prerelease identifier of SemVer 2.0: not empty, and without a leading
\* zero when it is all digits.
PrereleaseIdentifierOk(id) ==
    /\ id # <<>>
    /\ containsOnly(id, num) => (Len(id) = 1 \/ id[1] # "0")

\* A build-metadata identifier of SemVer 2.0: not empty, only [0-9A-Za-z-].
MetadataIdentifierOk(id) == id # <<>> /\ containsOnly(id, allowed)

IdentifiersOk(v) ==
    /\ v.pre # <<>> =>
           \A i \in DOMAIN Split(v.pre, ".") :
               PrereleaseIdentifierOk(Split(v.pre, ".")[i])
    /\ v.metadata # <<>> =>
           \A i \in DOMAIN Split(v.metadata, ".") :
               MetadataIdentifierOk(Split(v.metadata, ".")[i])

\* C4: every version New or StrictNew returns without error, and every
\* version a successful SetPrerelease or SetMetadata returns, has only
\* well-formed prerelease and build-metadata identifiers.
C4_IdentifiersWellFormed ==
    (/\ last.op \in Validating \cup {"SetPrerelease", "SetMetadata"}
     /\ last.err = "nil")
    => IdentifiersOk(last.ret)

\* Precedence of SemVer 2.0 (semver.org, item 11), from the text of the
\* standard: numbers of any length are compared as numbers.
NumericIdentifier(id) == id # <<>> /\ containsOnly(id, num)

NumberLess(a, b) ==
    LET da == StripZeros([i \in DOMAIN a |-> IndexOf(DigitSeq, a[i]) - 1])
        db == StripZeros([i \in DOMAIN b |-> IndexOf(DigitSeq, b[i]) - 1])
    IN  Len(da) < Len(db) \/ (Len(da) = Len(db) /\ DigitsLess(da, db))

IdentifierPrecedence(a, b) ==
    IF a = b THEN 0
    ELSE IF NumericIdentifier(a) /\ NumericIdentifier(b)
         THEN (IF NumberLess(a, b) THEN -1 ELSE IF NumberLess(b, a) THEN 1 ELSE 0)
    ELSE IF NumericIdentifier(a) THEN -1
    ELSE IF NumericIdentifier(b) THEN 1
    ELSE IF StrLess(a, b) THEN -1 ELSE 1

PrereleasePrecedence(p, q) ==
    LET ps == Split(p, ".")
        qs == Split(q, ".")
        n  == IF Len(ps) < Len(qs) THEN Len(ps) ELSE Len(qs)
        diff == {i \in 1..n : IdentifierPrecedence(ps[i], qs[i]) # 0}
    IN  IF diff # {}
        THEN LET i == CHOOSE k \in diff : \A j \in diff : k <= j
             IN  IdentifierPrecedence(ps[i], qs[i])
        ELSE IF Len(ps) < Len(qs) THEN -1
        ELSE IF Len(ps) > Len(qs) THEN 1
        ELSE 0

SemVerPrecedence(a, b) ==
    IF a.major # b.major THEN (IF U64Less(a.major, b.major) THEN -1 ELSE 1)
    ELSE IF a.minor # b.minor THEN (IF U64Less(a.minor, b.minor) THEN -1 ELSE 1)
    ELSE IF a.patch # b.patch THEN (IF U64Less(a.patch, b.patch) THEN -1 ELSE 1)
    ELSE IF a.pre = <<>> /\ b.pre = <<>> THEN 0
    ELSE IF a.pre = <<>> THEN 1
    ELSE IF b.pre = <<>> THEN -1
    ELSE PrereleasePrecedence(a.pre, b.pre)

\* C5: for versions accepted by New, Compare(a, b) is the SemVer 2.0
\* precedence of a and b computed from major, minor, patch and prerelease.
C5_CompareIsSemVerPrecedence ==
    (/\ last.op = "Compare"
     /\ prov[last.recv] = "New"
     /\ prov[last.other] = "New")
    => last.cmp = SemVerPrecedence(obj[last.recv], obj[last.other])

\* s without its leading v, if it has one.
WithoutV(s) == IF s # <<>> /\ s[1] = "v" THEN Tail(s) ELSE s

\* The major, minor and patch segments as written in s: what stands before
\* the first "-" or "+", split at the dots.
WrittenSegments(s) ==
    Split(SubSeq(WithoutV(s), 1, PrefixLen(WithoutV(s), num \cup {"."})), ".")

\* C6: for every s of the form [v]major.minor.patch[-pre][+meta] that New
\* accepts, String(New(s)) is s without the leading v.
C6_StringOfNewReproducesInput ==
    (/\ last.op = "New"
     /\ last.err = "nil"
     /\ Len(WrittenSegments(last.arg)) = 3)
    => String(last.ret) = WithoutV(last.arg)

\* C7: what MarshalJSON (MarshalText) encodes of a version from New,
\* StrictNew or derived from such, UnmarshalJSON (UnmarshalText) decodes
\* without error into a version that compares equal to it and has the same
\* String().
C7_EncodeDecodeRoundTrip ==
    (/\ \/ last.op = "UnmarshalJSON" /\ last.enc = "JSON"
        \/ last.op = "UnmarshalText" /\ last.enc = "Text"
     /\ last.sprov \in Validating)
    => /\ last.err = "nil"
       /\ Compare(last.src, obj[last.recv]) = 0
       /\ String(obj[last.recv]) = String(last.src)

\* r = p + 1 in uint64 arithmetic, from the decimal digits: the trailing 9s
\* of p become 0s and the digit before them goes up by one; 2^64 - 1 is
\* followed by 0.
TrailingNines(p) ==
    CHOOSE k \in 0..Len(p) :
        /\ \A i \in (Len(p) - k + 1)..Len(p) : p[i] = 9
        /\ (k = Len(p) \/ p[Len(p) - k] # 9)

IsNext64(p, r) ==
    IF p = MaxUint64 THEN r = Zero64
    ELSE LET k == TrailingNines(p)
             n == Len(p)
         IN  IF k = n
             THEN r = <<1>> \o [i \in 1..n |-> 0]
             ELSE /\ Len(r) = n
                  /\ \A i \in 1..(n - k - 1) : r[i] = p[i]
                  /\ r[n - k] = p[n - k] + 1
                  /\ \A i \in (n - k + 1)..n : r[i] = 0

C9_IncPatchKeepsPatchWithMetadata ==
    last.op = "IncPatch" =>
        /\ last.ret.pre = <<>>
        /\ last.ret.metadata = <<>>
        /\ IF last.before.pre # <<>> \/ last.before.metadata # <<>>
           THEN last.ret.patch = last.before.patch
           ELSE IsNext64(last.before.patch, last.ret.patch)

\* A major, minor or patch segment written with a leading zero.
LeadingZeroSegment(s) ==
    \E i \in DOMAIN WrittenSegments(s) :
        Len(WrittenSegments(s)[i]) > 1 /\ WrittenSegments(s)[i][1] = "0"

\* C10: New accepts a version without its minor or patch segment and makes
\* the missing segments 0, and rejects every input with a major, minor or
\* patch segment of more than one character that starts with 0.
C10_NewDefaultsAndRejectsLeadingZero ==
    last.op = "New" =>
        /\ LeadingZeroSegment(last.arg) => last.err # "nil"
        /\ (last.err = "nil" /\ Len(WrittenSegments(last.arg)) < 3)
               => last.ret.patch = Zero64
        /\ (last.err = "nil" /\ Len(WrittenSegments(last.arg)) < 2)
               => last.ret.minor = Zero64
        /\ last.arg = <<"1", ".", "2">> =>
               last.err = "nil" /\ String(last.ret) = <<"1", ".", "2", ".", "0">>

\* The error kinds the package declares.
DocumentedErrors ==
    {"ErrEmptyString", "ErrInvalidCharacters", "ErrSegmentStartsZero",
     "ErrInvalidSemVer", "ErrInvalidPrerelease", "ErrInvalidMetadata"}

\* p up to its first "-" or "+".
BeforeExtra(p) ==
    SubSeq(p, 1, CHOOSE n \in 0..Len(p) :
                     /\ \A i \in 1..n : p[i] \notin {"-", "+"}
                     /\ (n = Len(p) \/ p[n + 1] \in {"-", "+"}))

\* The dot-separated numeric segments of s: those that stand before its
\* prerelease and its metadata.
StrictWrittenSegments(s) == Split(BeforeExtra(s), ".")

SomeNonDigit(segs) == \E i \in DOMAIN segs : ~containsOnly(segs[i], num)

SomeLeadingZero(segs) ==
    \E i \in DOMAIN segs :
        containsOnly(segs[i], num) /\ Len(segs[i]) > 1 /\ segs[i][1] = "0"

\* A segment of digits that is empty or stands for more than 2^64 - 1.
SomeConversionFails(segs) ==
    /\ ~SomeNonDigit(segs)
    /\ \E i \in DOMAIN segs :
           \/ segs[i] = <<>>
           \/ U64Less(MaxUint64,
                      StripZeros([j \in DOMAIN segs[i] |->
                                     IndexOf(DigitSeq, segs[i][j]) - 1]))

\* C11: every failure of StrictNew or New is one of the declared error
\* kinds.  StrictNew gives ErrEmptyString for the empty string,
\* ErrInvalidSemVer when there are not exactly three dot-separated
\* segments, ErrInvalidCharacters when a numeric segment has a non-digit,
\* ErrSegmentStartsZero when a numeric segment of more than one character
\* starts with 0; in both parsers a numeric segment that fails the integer
\* conversion (empty, or beyond 64 bits) fails with ErrInvalidSemVer.
C11_ParseFailuresAreDeclaredKinds ==
    /\ (last.op \in Validating /\ last.err # "nil")
           => last.err \in DocumentedErrors
    /\ (last.op = "StrictNew" /\ last.arg = <<>>)
           => last.err = "ErrEmptyString"
    /\ (last.op = "StrictNew" /\ last.arg # <<>>
            /\ Len(StrictWrittenSegments(last.arg)) # 3)
           => last.err = "ErrInvalidSemVer"
    /\ (last.op = "StrictNew" /\ Len(StrictWrittenSegments(last.arg)) = 3)
           => /\ (/\ SomeNonDigit(StrictWrittenSegments(last.arg))
                  /\ ~SomeLeadingZero(StrictWrittenSegments(last.arg)))
                    => last.err = "ErrInvalidCharacters"
              /\ (/\ SomeLeadingZero(StrictWrittenSegments(last.arg))
                  /\ ~SomeNonDigit(StrictWrittenSegments(last.arg)))
                    => last.err = "ErrSegmentStartsZero"
              /\ (/\ SomeConversionFails(StrictWrittenSegments(last.arg))
                  /\ ~SomeLeadingZero(StrictWrittenSegments(last.arg)))
                    => last.err = "ErrInvalidSemVer"
    /\ (last.op = "New" /\ SomeConversionFails(WrittenSegments(last.arg)))
           => last.err = "ErrInvalidSemVer"

\* C12: SetPrerelease(s) and SetMetadata(s) validate s when it is not
\* empty.  When the validation fails they return the error and a value
\* equal to the receiver before the call, and the receiver keeps every
\* field, original included.  SetPrerelease("") succeeds and leaves no
\* prerelease; SetPrerelease("01") fails with ErrSegmentStartsZero.
C12_SettersRejectWithoutChange ==
    /\ (last.op \in {"SetPrerelease", "SetMetadata"} /\ last.err # "nil")
           => /\ last.arg # <<>>
              /\ last.ret = last.before
              /\ obj[last.recv] = last.before
    /\ (last.op = "SetPrerelease" /\ last.err # "nil")
           => last.err \in {"ErrSegmentStartsZero", "ErrInvalidPrerelease"}
    /\ (last.op = "SetMetadata" /\ last.err # "nil")
           => last.err = "ErrInvalidMetadata"
    /\ (last.op = "SetMetadata" /\ ~containsOnly(last.arg, allowed \cup {"."}))
           => last.err = "ErrInvalidMetadata"
    /\ (last.op = "SetPrerelease" /\ last.arg = <<>>)
           => last.err = "nil" /\ last.ret.pre = <<>>
                               /\ obj[last.recv].pre = <<>>
    /\ (last.op = "SetPrerelease" /\ last.arg = <<"0", "1">>)
           => last.err = "ErrSegmentStartsZero"

\* SetPrerelease("01") has failed on a version with the prerelease alpha.
C12_Witness ==
    /\ last.op = "SetPrerelease"
    /\ last.arg = <<"0", "1">>
    /\ last.err = "ErrSegmentStartsZero"
    /\ last.before.pre = <<"a", "l", "p", "h", "a">>
    /\ obj[last.recv] = last.before

StartsWithV(s) == s # <<>> /\ s[1] = "v"

\* C13: after a successful IncPatch, IncMinor, IncMajor, SetPrerelease or
\* SetMetadata, Original() of the result is String() of the result, with a
\* "v" before it exactly when the receiver's original started with "v"; so
\* a derivation keeps the v prefix a version has or has not, and String()
\* never starts with "v".
C13_OriginalIsPrefixedString ==
    /\ (last.op \in DeriveOps /\ last.err = "nil")
           => /\ Original(last.ret) =
                     (IF StartsWithV(Original(last.before)) THEN <<"v">>
                      ELSE <<>>) \o String(last.ret)
              /\ StartsWithV(Original(last.ret))
                     <=> StartsWithV(Original(last.before))
              /\ ~StartsWithV(String(last.ret))
    /\ \A h \in Holders : ~StartsWithV(String(obj[h]))

\* A second derivation in a row from a version parsed with the v prefix.
C13_Witness ==
    /\ last.op \in DeriveOps
    /\ last.err = "nil"
    /\ steps[last.recv] = 2
    /\ StartsWithV(Original(last.before))
    /\ StartsWithV(Original(last.ret))
    /\ Original(last.ret) # Original(last.before)

\* A text of white space only.
Blank(s) == \A i \in DOMAIN s : s[i] \in WhiteSpace

\* e without the white space around it.
Trimmed(e) ==
    IF Blank(e) THEN <<>>
    ELSE CHOOSE x \in {SubSeq(e, i, j) : i, j \in DOMAIN e} :
             /\ x # <<>>
             /\ x[1] \notin WhiteSpace
             /\ x[Len(x)] \notin WhiteSpace
             /\ \E i, j \in DOMAIN e :
                    /\ x = SubSeq(e, i, j)
                    /\ Blank(SubSeq(e, 1, i - 1))
                    /\ Blank(SubSeq(e, j + 1, Len(e)))

\* The trimmed entries of st that archList has, in the order of st.
AllowedEntries(st, archList) ==
    SelectSeq([i \in DOMAIN Split(st, ",") |-> Trimmed(Split(st, ",")[i])],
              LAMBDA e : e # <<>> /\ e \in Range(archList))

\* C14: for every input that is not blank and every allow-list, archValid
\* returns a nil error and exactly the trimmed entries of the input that
\* the allow-list has, in the order of the input; an entry the allow-list
\* does not have, or one that is empty once trimmed, is left out and never
\* makes the call fail.
C14_ArchValidFiltersAllowed ==
    (last.op = "archValid" /\ ~Blank(last.arg))
        => /\ ~last.panic
           /\ last.err = "nil"
           /\ last.lst = AllowedEntries(last.arg, last.list)

\* archValid has kept two of three entries, the first one typed after a
\* space.
C14_Witness ==
    /\ last.op = "archValid"
    /\ last.arg # <<>>
    /\ last.arg[1] = " "
    /\ Len(Split(last.arg, ",")) = 3
    /\ Len(last.lst) = 2
    /\ last.lst[1] # last.lst[2]

\* C15: for every version with major, minor and patch anywhere in the
\* unsigned 64-bit range, the value IncPatch, IncMinor or IncMajor returns
\* compares strictly greater than the receiver's value before the call, so
\* a sequence of increments is a strictly increasing chain.
C15_IncrementIsGreater ==
    last.op \in {"IncPatch", "IncMinor", "IncMajor"}
        => Compare(last.ret, last.before) = 1

====
